---- MODULE Spec2Model ----
(***************************************************************************)
(* The execution pipeline of src/src/run-code/index.js (runCode): one job   *)
(* goes through validation, createCodeFile, the optional compile phase,     *)
(* the execute phase, removeCodeFile and info, while the child processes,   *)
(* their stdio streams and the timers produce events in any order the       *)
(* child_process and timers APIs allow.                                     *)
(*                                                                          *)
(* Spec is one call of runCode; FairSpec adds that timers fire and          *)
(* collaborators return; FaultSpec adds a removeCodeFile that fails;        *)
(* ConcSpec is several calls of runCode in progress at once; JavaSpec is    *)
(* executeJava of src/unnamed/part_000.                                     *)
(*                                                                          *)
(* Strings are sequences of tokens: a chunk a child wrote is one token, a   *)
(* fixed message of the code is one token, `a + b` is a \o b and the empty  *)
(* string is <<>>.                                                          *)
(***************************************************************************)
EXTENDS Naturals, Integers, Sequences, FiniteSets, TLC

\* Chunks a child process writes to each of its output streams, at most.
MaxWrite == 1

\* const timeout = 10 (seconds of the execute phase).
timeout == 10

----------------------------------------------------------------------------
(* Collaborators that live outside index.js *)

\* supportedLanguages of ./instructions: "c" is compiled then run, "py" is
\* run directly, "obj" is compiled and has no execute command.
supportedLanguages == {"c", "py", "obj"}

\* commandMap(jobID, language) of ./instructions; "" is a missing command.
commandMap(id, language) ==
    [compileCodeCommand |-> IF language \in {"c", "obj"} THEN "cc" ELSE "",
     executeCodeCommand |-> IF language = "c" THEN "a.out"
                            ELSE IF language = "py" THEN "python3" ELSE "",
     outputExt          |-> IF language \in {"c", "obj"} THEN "out" ELSE ""]

\* info(language) of ./info.
info(language) == <<"info", language>>

\* The requests a caller can make: language and code default to "".
Languages == supportedLanguages \cup {"", "zz"}
Codes == {"", "src"}
Inputs == {"", "in"}

----------------------------------------------------------------------------
(* Strings *)

\* JavaScript's a || b on strings: the empty string is falsy.
OrElse(a, b) == IF a # <<>> THEN a ELSE b

\* The k-th chunk a child writes to its stdout / stderr.
OutChunk(k) == IF k = 1 THEN "o1" ELSE IF k = 2 THEN "o2" ELSE "o3"
ErrChunk(k) == IF k = 1 THEN "e1" ELSE IF k = 2 THEN "e2" ELSE "e3"

\* Everything in the first n chunks of a stream.
RECURSIVE OutText(_)
OutText(n) == IF n = 0 THEN <<>> ELSE Append(OutText(n - 1), OutChunk(n))
RECURSIVE ErrText(_)
ErrText(n) == IF n = 0 THEN <<>> ELSE Append(ErrText(n - 1), ErrChunk(n))

----------------------------------------------------------------------------
(* A child process as child_process.spawn presents it *)

\* proc: "none" (never spawned), "spawnfail" (spawn returned a child whose
\* launch failed: an 'error' event follows), "running", "dead".
\* pending: a signal sent by kill() and not yet acted on. exitCode -1 is
\* JavaScript's null (death by signal). outW/errW count the chunks written,
\* outD/errD the chunks already delivered as 'data' events.
NoChild ==
    [proc |-> "none", pending |-> "none", exitCode |-> 0, signal |-> "none",
     outW |-> 0, errW |-> 0, outD |-> 0, errD |-> 0,
     exitSeen |-> FALSE, closeSeen |-> FALSE, errSeen |-> FALSE]

\* What spawn() returns when it does not throw: a child with its three stdio
\* streams, launched or not. (A spawn that fails for want of file
\* descriptors returns a child without streams; that case is not modelled.)
SpawnKinds == {"running", "spawnfail"}
Spawned(kind) == [NoChild EXCEPT !.proc = kind]

\* err.message of the failures a spawn can report: asynchronously, by the
\* child's 'error' event, and synchronously, by throwing.
SpawnErrorMessage == "spawn ENOENT"
SpawnThrowMessage == "spawn E2BIG"

\* The child after child.kill(sig): a running child has the signal on its
\* way (SIGKILL is not replaced by a weaker one); for a child that has ended
\* or was never launched the call fails quietly and returns false.
Kill(p, sig) ==
    IF p.proc = "running"
    THEN [p EXCEPT !.pending = IF @ = "SIGKILL" THEN @ ELSE sig]
    ELSE p

\* The steps the operating system and the child take on their own.
ChildSteps(p) ==
    IF p.proc # "running" THEN {}
    ELSE (IF p.outW < MaxWrite THEN {[p EXCEPT !.outW = @ + 1]} ELSE {})
         \cup (IF p.errW < MaxWrite THEN {[p EXCEPT !.errW = @ + 1]} ELSE {})
         \cup (IF p.pending # "SIGKILL"
               THEN {[p EXCEPT !.proc = "dead", !.exitCode = c] : c \in {0, 1}}
               ELSE {})
         \cup (IF p.pending # "none"
               THEN {[p EXCEPT !.proc = "dead", !.exitCode = -1,
                               !.signal = p.pending, !.pending = "none"]}
               ELSE {[p EXCEPT !.proc = "dead", !.exitCode = -1,
                               !.signal = "SIGSEGV"]})

\* 'exit' is emitted once the process has ended; its stdio may still hold
\* undelivered data.
ExitReady(p) == p.proc = "dead" /\ ~p.exitSeen

\* 'close' is emitted after the process has ended (or failed to launch) and
\* its stdio streams have been read to their end.
CloseReady(p) ==
    /\ ~p.closeSeen
    /\ \/ p.proc = "dead" /\ p.exitSeen
       \/ p.proc = "spawnfail" /\ p.errSeen
    /\ p.outD = p.outW
    /\ p.errD = p.errW

----------------------------------------------------------------------------
(* Several jobs at once *)

\* Calls of runCode that are in progress at the same time.
NJobs == 2
Jobs == 1..NJobs

\* The variables of one call of runCode in a language that is run without
\* being compiled, before the call. removing is the jobID removeCodeFile
\* was called with.
NoJob ==
    [pc |-> "idle", jobID |-> 0, executeCode |-> 0, timer |-> FALSE,
     isResolved |-> FALSE, output |-> <<>>, result |-> <<>>, removing |-> 0,
     response |-> <<>>]

\* An execute child that writes to stdout only. parent is the call that
\* spawned it; a chunk it writes is <<process, number>>.
NoProcess ==
    [parent |-> 0, state |-> "none", pending |-> FALSE, wrote |-> 0,
     read |-> 0, closed |-> FALSE]

----------------------------------------------------------------------------
VARIABLES
    pc,                \* where runCode is
    job,               \* the arguments of the call
    jobID,             \* what createCodeFile returned (0: nothing yet)
    artifacts,         \* the jobIDs whose files exist
    createCalls,       \* calls of createCodeFile
    removeLog,         \* the jobID of every call of removeCodeFile
    spawnLog,          \* the phase of every call of spawn
    cproc,             \* compileCode
    compileTimer,      \* compileTimer is pending
    compileIsResolved, \* isResolved of the compile promise
    compileError,
    compileOutput,
    compileResult,     \* what the compile promise was rejected with
    compileSettledBy,  \* the event that settled the compile promise
    compileWrote,      \* the chunks the compiler had written when it was settled
    eproc,             \* executeCode
    stdin,             \* what reached executeCode.stdin, and whether it ended
    timer,             \* timer is pending
    nodeTimer,         \* the timer of spawn's timeout option is pending
    isResolved,        \* isResolved of the execute promise
    output,
    error,
    result,            \* what the execute promise was resolved with
    settledBy,         \* the event that settled the execute promise
    response,          \* what runCode returned or threw
    outcome,           \* "none", "returned" or "thrown"
    \* src/unnamed/part_000 (executeJava)
    javaPc,            \* where executeJava is
    codeExec,          \* the java child
    outputString,
    errorString,
    javaTimer,         \* the 8-second timer is pending
    javaPromise,       \* the promise runCode awaits: its state and value
    javaRecord,        \* what executeJava resolved to (<<>>: nothing yet)
    javaFirst,         \* the first settling event, and errorString at it
    \* several calls of runCode at once
    jobs,              \* the closure of each call: its own variables
    procs,             \* the execute child each call spawned
    files,             \* the jobIDs whose artifact exists
    removals,          \* <<job, jobID>> for every call of removeCodeFile
    kills              \* <<job, process>> for every call of kill

jvars == <<job, jobID, artifacts, createCalls>>
cvars == <<cproc, compileTimer, compileIsResolved, compileError, compileOutput,
           compileResult, compileSettledBy, compileWrote>>
evars == <<eproc, stdin, timer, nodeTimer, isResolved, output, error, result,
           settledBy>>
rvars == <<response, outcome>>
javaVars == <<javaPc, codeExec, outputString, errorString, javaTimer,
              javaPromise, javaRecord, javaFirst>>
concVars == <<jobs, procs, files, removals, kills>>
runVars == <<pc, jvars, removeLog, spawnLog, cvars, evars, rvars>>
vars == <<runVars, javaVars, concVars>>

Init ==
    /\ pc = "idle"
    /\ job = [language |-> "", code |-> "", input |-> ""]
    /\ jobID = 0
    /\ artifacts = {}
    /\ createCalls = 0
    /\ removeLog = <<>>
    /\ spawnLog = <<>>
    /\ cproc = NoChild
    /\ compileTimer = FALSE
    /\ compileIsResolved = FALSE
    /\ compileError = <<>>
    /\ compileOutput = <<>>
    /\ compileResult = <<>>
    /\ compileSettledBy = "none"
    /\ compileWrote = [out |-> 0, err |-> 0]
    /\ eproc = NoChild
    /\ stdin = [data |-> <<>>, ended |-> FALSE]
    /\ timer = FALSE
    /\ nodeTimer = FALSE
    /\ isResolved = FALSE
    /\ output = <<>>
    /\ error = <<>>
    /\ result = <<>>
    /\ settledBy = "none"
    /\ response = <<>>
    /\ outcome = "none"
    /\ javaPc = "idle"
    /\ codeExec = NoChild
    /\ outputString = <<>>
    /\ errorString = <<>>
    /\ javaTimer = FALSE
    /\ javaPromise = [state |-> "pending", value |-> <<>>]
    /\ javaRecord = <<>>
    /\ javaFirst = [kind |-> "none", stderr |-> <<>>]
    /\ jobs = [j \in Jobs |-> NoJob]
    /\ procs = [j \in Jobs |-> NoProcess]
    /\ files = {}
    /\ removals = {}
    /\ kills = {}


----------------------------------------------------------------------------
(* runCode: validation and createCodeFile *)

\* Valid with the language check left out.
ValidCodeOnly(language, code) == code # ""

\* The two checks runCode makes before anything else.
Valid(language, code) == code # "" /\ language \in supportedLanguages

\* What runCode throws when a check fails.
ValidationFailure(language, code) ==
    IF code = ""
    THEN [status |-> 400, error |-> <<"No Code found to execute.">>]
    ELSE [status |-> 400, error |-> <<"Please enter a valid language.">>]

\* The promise of the execute phase is resolved with r; runCode resumes and
\* calls removeCodeFile(jobID, language, outputExt).
ExecSettle(id, r, by) ==
    /\ result' = r
    /\ settledBy' = by
    /\ removeLog' = Append(removeLog, id)
    /\ pc' = "awaitRemove"

\* What the execute phase resolves with when spawn throws or the child
\* emits 'error'.
RuntimeErrorResult(message) ==
    [output |-> <<>>, error |-> <<"Runtime error: ", message>>]

\* What the execute phase resolves with when there is no execute command.
MissingExecutableResult ==
    [output |-> <<>>, error |-> <<"Executable not found">>]

\* executeCode.stdin after the guarded write and end. The stream of a child
\* that was launched takes both; on the stream of a child that could not be
\* launched either call may also throw, and the throw is swallowed.
StdinAfter(input, kind) ==
    LET written == IF input # "" THEN <<input>> ELSE <<>> IN
    {[data |-> written, ended |-> TRUE]}
    \cup (IF kind = "spawnfail"
          THEN {[data |-> written, ended |-> FALSE],
                [data |-> <<>>, ended |-> FALSE]}
          ELSE {})

\* StdinThrowEscapes with the try/catch blocks left out: a throw of write or
\* end leaves the executor, the promise is rejected with it and runCode
\* rejects.
StdinUnguarded(after) == ~after.ended

\* try { executeCode.stdin.write(input); executeCode.stdin.end() } catch (e)
\* {}: no throw of the two calls leaves the executor.
StdinThrowEscapes(after) == FALSE

\* What write or end throws on a stream that cannot take it.
StdinThrowObject == [code |-> "ERR_STREAM_DESTROYED"]

\* ExecuteCommandMissing with the test left out.
ExecuteCommandNeverMissing(cmd) == FALSE

\* if (!executeCodeCommand)
ExecuteCommandMissing(cmd) == cmd.executeCodeCommand = ""

\* The executor of the execute promise, run synchronously by whatever
\* reached it, for the job whose artifact is id.
ExecutePhase(id) ==
    LET cmd == commandMap(id, job.language) IN
    \/ /\ ExecuteCommandMissing(cmd)
       /\ ExecSettle(id, MissingExecutableResult, "missing")
       /\ UNCHANGED <<spawnLog, eproc, stdin, timer, nodeTimer, isResolved,
                      output, error, rvars>>
    \/ /\ ~ExecuteCommandMissing(cmd)
       /\ spawnLog' = Append(spawnLog, "execute")
       /\ \/ /\ ExecSettle(id, RuntimeErrorResult(SpawnThrowMessage), "throw")
             /\ UNCHANGED <<eproc, stdin, timer, nodeTimer, isResolved,
                            output, error, rvars>>
          \/ /\ \E kind \in SpawnKinds :
                   /\ eproc' = Spawned(kind)
                   /\ stdin' \in StdinAfter(job.input, kind)
             /\ nodeTimer' = TRUE
             /\ timer' = TRUE
             /\ output' = <<>>
             /\ error' = <<>>
             /\ isResolved' = FALSE
             /\ IF StdinThrowEscapes(stdin')
                THEN /\ response' = StdinThrowObject
                     /\ outcome' = "thrown"
                     /\ pc' = "done"
                ELSE /\ pc' = "awaitExecute"
                     /\ UNCHANGED rvars
             /\ UNCHANGED <<result, settledBy, removeLog>>

\* CompileFailureCleanup with the call of removeCodeFile left out.
CompileFailureCleanupSkipped(id) == removeLog

\* What removeCodeFile is called with when compilation failed.
CompileFailureCleanup(id) == Append(removeLog, id)

\* The compile promise is rejected with value; runCode resumes in its catch
\* block and calls removeCodeFile.
CatchCompile(id, value, by) ==
    /\ compileResult' = value
    /\ compileSettledBy' = by
    /\ compileWrote' = [out |-> cproc.outW, err |-> cproc.errW]
    /\ removeLog' = CompileFailureCleanup(id)
    /\ pc' = "awaitRemoveFailed"
    /\ UNCHANGED <<evars, rvars>>

\* The own enumerable properties of the Error a throwing spawn raises.
SpawnThrowObject == [code |-> "E2BIG", syscall |-> "spawn"]

\* The executor of the compile promise.
CompilePhase(id) ==
    /\ spawnLog' = Append(spawnLog, "compile")
    /\ \/ /\ CatchCompile(id, SpawnThrowObject, "throw")
          /\ UNCHANGED <<cproc, compileTimer, compileIsResolved, compileError,
                         compileOutput>>
       \/ /\ \E kind \in SpawnKinds : cproc' = Spawned(kind)
          /\ compileTimer' = TRUE
          /\ compileError' = <<>>
          /\ compileOutput' = <<>>
          /\ compileIsResolved' = FALSE
          /\ pc' = "awaitCompile"
          /\ UNCHANGED <<compileResult, compileSettledBy, compileWrote,
                         removeLog, evars, rvars>>

\* runCode is called: the validation, then the call of createCodeFile.
RunCode(language, code, input) ==
    /\ pc = "idle"
    /\ job' = [language |-> language, code |-> code, input |-> input]
    /\ IF Valid(language, code)
       THEN /\ createCalls' = createCalls + 1
            /\ pc' = "awaitCreate"
            /\ UNCHANGED rvars
       ELSE /\ response' = ValidationFailure(language, code)
            /\ outcome' = "thrown"
            /\ pc' = "done"
            /\ UNCHANGED createCalls
    /\ UNCHANGED <<jobID, artifacts, removeLog, spawnLog, cvars, evars>>
    /\ UNCHANGED <<javaVars, concVars>>

\* HasCompileStep with every language taken for a compiled one.
AlwaysCompiles(cmd) == TRUE

\* if (compileCodeCommand): the compile phase runs only for a language that
\* has a compile command.
HasCompileStep(cmd) == cmd.compileCodeCommand # ""

\* createCodeFile returns the jobID; commandMap is consulted and runCode
\* runs on to its next await.
CreateCodeFileReturns ==
    /\ pc = "awaitCreate"
    /\ jobID' = jobID + 1
    /\ artifacts' = artifacts \cup {jobID'}
    /\ IF HasCompileStep(commandMap(jobID', job.language))
       THEN CompilePhase(jobID')
       ELSE ExecutePhase(jobID') /\ UNCHANGED cvars
    /\ UNCHANGED <<job, createCalls>>
    /\ UNCHANGED <<javaVars, concVars>>


----------------------------------------------------------------------------
(* The compile phase: the handlers of compileCode and compileTimer *)

\* What the compile promise is rejected with by the timer, by 'error' and by
\* a failing 'exit'.
CompileTimeoutRejection ==
    [status |-> 200, output |-> <<>>, error |-> <<"Compilation timed out">>,
     language |-> job.language]

CompileErrorRejection(message) ==
    [status |-> 200, output |-> <<>>,
     error |-> <<"Compilation error: ", message>>, language |-> job.language]

CompileExitRejection ==
    [status |-> 200, output |-> <<>>,
     error |-> OrElse(compileError,
                      OrElse(compileOutput, <<"Compilation failed">>)),
     language |-> job.language]

\* CompileExitFailed with the exit code ignored.
CompileExitAlwaysPasses(code) == FALSE

\* The test the 'exit' handler makes on the compiler's exit code.
CompileExitFailed(code) == code # 0

\* The compiler, or the operating system on it, takes a step.
CompilerRuns ==
    /\ \E p \in ChildSteps(cproc) : cproc' = p
    /\ UNCHANGED <<pc, jvars, removeLog, spawnLog, compileTimer,
                   compileIsResolved, compileError, compileOutput,
                   compileResult, compileSettledBy, compileWrote, evars, rvars>>
    /\ UNCHANGED <<javaVars, concVars>>

\* compileCode.stdout.on("data")
CompileStdoutData ==
    /\ cproc.outD < cproc.outW
    /\ cproc' = [cproc EXCEPT !.outD = @ + 1]
    /\ compileOutput' = compileOutput \o <<OutChunk(cproc.outD + 1)>>
    /\ UNCHANGED <<pc, jvars, removeLog, spawnLog, compileTimer,
                   compileIsResolved, compileError, compileResult,
                   compileSettledBy, compileWrote, evars, rvars>>
    /\ UNCHANGED <<javaVars, concVars>>

\* compileCode.stderr.on("data")
CompileStderrData ==
    /\ cproc.errD < cproc.errW
    /\ cproc' = [cproc EXCEPT !.errD = @ + 1]
    /\ compileError' = compileError \o <<ErrChunk(cproc.errD + 1)>>
    /\ UNCHANGED <<pc, jvars, removeLog, spawnLog, compileTimer,
                   compileIsResolved, compileOutput, compileResult,
                   compileSettledBy, compileWrote, evars, rvars>>
    /\ UNCHANGED <<javaVars, concVars>>

\* The callback of compileTimer.
CompileTimer ==
    /\ compileTimer
    /\ compileTimer' = FALSE
    /\ IF ~compileIsResolved
       THEN /\ compileIsResolved' = TRUE
            /\ cproc' = Kill(cproc, "SIGKILL")
            /\ CatchCompile(jobID, CompileTimeoutRejection, "timer")
       ELSE UNCHANGED <<compileIsResolved, cproc, compileResult,
                        compileSettledBy, compileWrote, removeLog, pc, evars,
                        rvars>>
    /\ UNCHANGED <<jvars, spawnLog, compileError, compileOutput>>
    /\ UNCHANGED <<javaVars, concVars>>

\* compileCode.on("error")
CompileError ==
    /\ cproc.proc = "spawnfail"
    /\ ~cproc.errSeen
    /\ cproc' = [cproc EXCEPT !.errSeen = TRUE]
    /\ IF ~compileIsResolved
       THEN /\ compileIsResolved' = TRUE
            /\ compileTimer' = FALSE
            /\ CatchCompile(jobID, CompileErrorRejection(SpawnErrorMessage),
                            "error")
       ELSE UNCHANGED <<compileIsResolved, compileTimer, compileResult,
                        compileSettledBy, compileWrote, removeLog, pc, evars,
                        rvars>>
    /\ UNCHANGED <<jvars, spawnLog, compileError, compileOutput>>
    /\ UNCHANGED <<javaVars, concVars>>

\* compileCode.on("exit"): a zero exit code resolves the promise and runCode
\* goes on into the execute phase.
CompileExit ==
    /\ ExitReady(cproc)
    /\ cproc' = [cproc EXCEPT !.exitSeen = TRUE]
    /\ IF ~compileIsResolved
       THEN /\ compileIsResolved' = TRUE
            /\ compileTimer' = FALSE
            /\ IF CompileExitFailed(cproc.exitCode)
               THEN /\ CatchCompile(jobID, CompileExitRejection, "exit")
                    /\ UNCHANGED spawnLog
               ELSE /\ compileSettledBy' = "exit"
                    /\ compileWrote' = [out |-> cproc.outW, err |-> cproc.errW]
                    /\ UNCHANGED compileResult
                    /\ ExecutePhase(jobID)
       ELSE UNCHANGED <<compileIsResolved, compileTimer, compileResult,
                        compileSettledBy, compileWrote, removeLog, pc,
                        spawnLog, evars, rvars>>
    /\ UNCHANGED <<jvars, compileError, compileOutput>>
    /\ UNCHANGED <<javaVars, concVars>>

\* CompileFailureResponse with the info left out.
CompileFailureResponseBare(rejection, language) == rejection

\* What runCode returns after a failed compilation.
CompileFailureResponse(rejection, language) ==
    [info |-> info(language)] @@ rejection

\* removeCodeFile returns in the catch block; info is called.
RemoveCodeFileReturnsFailed ==
    /\ pc = "awaitRemoveFailed"
    /\ artifacts' = artifacts \ {jobID}
    /\ pc' = "awaitInfoFailed"
    /\ UNCHANGED <<job, jobID, createCalls, removeLog, spawnLog, cvars, evars,
                   rvars>>
    /\ UNCHANGED <<javaVars, concVars>>

\* removeCodeFile fails in the catch block: it swallows its failure and
\* returns, and the artifact is still there.
RemoveCodeFileSwallowsFailed ==
    /\ pc = "awaitRemoveFailed"
    /\ pc' = "awaitInfoFailed"
    /\ UNCHANGED <<jvars, removeLog, spawnLog, cvars, evars, rvars>>
    /\ UNCHANGED <<javaVars, concVars>>

\* info returns in the catch block; runCode returns.
InfoReturnsFailed ==
    /\ pc = "awaitInfoFailed"
    /\ response' = CompileFailureResponse(compileResult, job.language)
    /\ outcome' = "returned"
    /\ pc' = "done"
    /\ UNCHANGED <<jvars, removeLog, spawnLog, cvars, evars>>
    /\ UNCHANGED <<javaVars, concVars>>


----------------------------------------------------------------------------
(* The execute phase: the handlers of executeCode and the two timers *)

\* "\nExecution timed out after " + timeout + " seconds"
TimeoutNotice ==
    <<"\nExecution timed out after ", ToString(timeout), " seconds">>

\* `\nProcess terminated by signal: ${signal}`
SignalNotice(signal) == <<"\nProcess terminated by signal: ", signal>>

\* What the timer callback resolves with.
TimerResult ==
    [output |-> output, error |-> OrElse(error, <<>>) \o TimeoutNotice]

\* TimerSettles with the test of isResolved inverted.
TimerNeverSettles == isResolved

\* The condition under which the timer callback settles the promise.
TimerSettles == ~isResolved

\* CloseResult with the signal notice left out.
CloseResultWithoutNotice(signal) == [output |-> output, error |-> error]

\* What the 'close' handler resolves with; signal is "none" for null.
CloseResult(signal) ==
    [output |-> output,
     error |-> IF signal # "none" THEN error \o SignalNotice(signal)
               ELSE error]

\* CloseSettles with the test of isResolved left out.
CloseAlwaysSettles == TRUE

\* The condition under which the 'close' handler settles the promise.
CloseSettles == ~isResolved

\* ExecuteEndReady with the handler put on 'exit' instead of 'close'.
ExecuteEndOnExit(p) == p.proc = "dead" /\ ~p.exitSeen

\* The event of executeCode the code settles the promise on: 'close'.
ExecuteEndReady(p) == CloseReady(p)

\* ExecuteErrorHandler with clearTimeout(timer) left out.
ExecuteErrorHandlerKeepsTimer(message, by) ==
    IF ~isResolved
    THEN /\ isResolved' = TRUE
         /\ ExecSettle(jobID, RuntimeErrorResult(message), by)
         /\ UNCHANGED timer
    ELSE UNCHANGED <<isResolved, timer, result, settledBy, removeLog, pc>>

\* The body of executeCode.on("error").
ExecuteErrorHandler(message, by) ==
    IF ~isResolved
    THEN /\ isResolved' = TRUE
         /\ timer' = FALSE
         /\ ExecSettle(jobID, RuntimeErrorResult(message), by)
    ELSE UNCHANGED <<isResolved, timer, result, settledBy, removeLog, pc>>

\* The submitted program, or the operating system on it, takes a step.
ProgramRuns ==
    /\ \E p \in ChildSteps(eproc) : eproc' = p
    /\ UNCHANGED <<pc, jvars, removeLog, spawnLog, cvars, stdin, timer,
                   nodeTimer, isResolved, output, error, result, settledBy, rvars>>
    /\ UNCHANGED <<javaVars, concVars>>

\* The callback of the timer runCode sets: SIGKILL, guarded, then resolve.
ExecuteTimer ==
    /\ timer
    /\ timer' = FALSE
    /\ IF TimerSettles
       THEN /\ isResolved' = TRUE
            /\ eproc' = Kill(eproc, "SIGKILL")
            /\ ExecSettle(jobID, TimerResult, "timer")
       ELSE UNCHANGED <<isResolved, eproc, result, settledBy, removeLog, pc>>
    /\ UNCHANGED <<jvars, spawnLog, cvars, stdin, nodeTimer, output, error,
                   rvars>>
    /\ UNCHANGED <<javaVars, concVars>>

\* The timer of spawn's timeout option: child.kill("SIGTERM"). runCode's
\* own timer runs for the same time; the timers API promises no order
\* between the two callbacks.
SpawnTimeout ==
    /\ nodeTimer
    /\ nodeTimer' = FALSE
    /\ eproc' = Kill(eproc, "SIGTERM")
    /\ UNCHANGED <<pc, jvars, removeLog, spawnLog, cvars, stdin, timer,
                   isResolved, output, error, result, settledBy, rvars>>
    /\ UNCHANGED <<javaVars, concVars>>

\* executeCode.on("error") for a child that could not be launched.
ExecuteError ==
    /\ eproc.proc = "spawnfail"
    /\ ~eproc.errSeen
    /\ eproc' = [eproc EXCEPT !.errSeen = TRUE]
    /\ ExecuteErrorHandler(SpawnErrorMessage, "error")
    /\ UNCHANGED <<jvars, spawnLog, cvars, stdin, nodeTimer, output, error, rvars>>
    /\ UNCHANGED <<javaVars, concVars>>

\* executeCode.stdout.on("data")
ExecuteStdoutData ==
    /\ eproc.outD < eproc.outW
    /\ eproc' = [eproc EXCEPT !.outD = @ + 1]
    /\ output' = output \o <<OutChunk(eproc.outD + 1)>>
    /\ UNCHANGED <<pc, jvars, removeLog, spawnLog, cvars, stdin, timer,
                   nodeTimer, isResolved, error, result, settledBy, rvars>>
    /\ UNCHANGED <<javaVars, concVars>>

\* executeCode.stderr.on("data")
ExecuteStderrData ==
    /\ eproc.errD < eproc.errW
    /\ eproc' = [eproc EXCEPT !.errD = @ + 1]
    /\ error' = error \o <<ErrChunk(eproc.errD + 1)>>
    /\ UNCHANGED <<pc, jvars, removeLog, spawnLog, cvars, stdin, timer,
                   nodeTimer, isResolved, output, result, settledBy, rvars>>
    /\ UNCHANGED <<javaVars, concVars>>

\* 'exit' of executeCode: runCode has no handler for it; spawn's timeout
\* option clears its timer on it.
ExecuteExit ==
    /\ ExitReady(eproc)
    /\ eproc' = [eproc EXCEPT !.exitSeen = TRUE]
    /\ nodeTimer' = FALSE
    /\ UNCHANGED <<pc, jvars, removeLog, spawnLog, cvars, stdin, timer,
                   isResolved, output, error, result, settledBy,
                   rvars>>
    /\ UNCHANGED <<javaVars, concVars>>

\* executeCode.on("close")
ExecuteClose ==
    /\ ExecuteEndReady(eproc)
    /\ eproc' = [eproc EXCEPT !.closeSeen = TRUE, !.exitSeen = TRUE]
    /\ IF CloseSettles
       THEN /\ isResolved' = TRUE
            /\ timer' = FALSE
            /\ error' = CloseResult(eproc.signal).error
            /\ ExecSettle(jobID, CloseResult(eproc.signal), "close")
       ELSE UNCHANGED <<isResolved, timer, error, result, settledBy,
                        removeLog, pc>>
    /\ UNCHANGED <<jvars, spawnLog, cvars, stdin, nodeTimer, output, rvars>>
    /\ UNCHANGED <<javaVars, concVars>>

\* FinalResponse with the status field of the compile-failure shape added.
FinalResponseWithStatus(r, language) ==
    [status |-> 200, language |-> language, info |-> info(language)] @@ r

\* What runCode returns after the execute phase.
FinalResponse(r, language) ==
    [language |-> language, info |-> info(language)] @@ r

\* removeCodeFile returns after the execute phase; info is called.
RemoveCodeFileReturns ==
    /\ pc = "awaitRemove"
    /\ artifacts' = artifacts \ {jobID}
    /\ pc' = "awaitInfo"
    /\ UNCHANGED <<job, jobID, createCalls, removeLog, spawnLog, cvars, evars,
                   rvars>>
    /\ UNCHANGED <<javaVars, concVars>>

\* removeCodeFile fails after the execute phase, swallows its failure and
\* returns.
RemoveCodeFileSwallows ==
    /\ pc = "awaitRemove"
    /\ pc' = "awaitInfo"
    /\ UNCHANGED <<jvars, removeLog, spawnLog, cvars, evars, rvars>>
    /\ UNCHANGED <<javaVars, concVars>>

\* info returns; runCode returns.
InfoReturns ==
    /\ pc = "awaitInfo"
    /\ response' = FinalResponse(result, job.language)
    /\ outcome' = "returned"
    /\ pc' = "done"
    /\ UNCHANGED <<jvars, removeLog, spawnLog, cvars, evars>>
    /\ UNCHANGED <<javaVars, concVars>>

----------------------------------------------------------------------------
(* executeJava of src/unnamed/part_000: its runCode awaits one promise that *)
(* the java child's 'exit' and an 8-second timer both try to settle        *)

\* const timeout = 8
javaTimeout == 8

\* The message the timer rejects with.
JavaTimedOut ==
    <<"Error: Timed Out. Your code took too long to execute, over ",
      ToString(javaTimeout), " seconds.">>

\* What runCode returns from its try block and from its catch block; the
\* timestamp is whatever new Date() gives.
JavaSuccess(value) == [success |-> TRUE, timestamp |-> "Date", output |-> value]
JavaFailure(value) == [success |-> FALSE, timestamp |-> "Date", error |-> value]

\* resolve(value) or reject(value) on the awaited promise: only the first
\* call settles it. Once it is settled runCode resumes, returns the record
\* of its try or catch block, and executeJava resolves to that record.
JavaSettle(state, value) ==
    IF javaPromise.state = "pending"
    THEN /\ javaPromise' = [state |-> state, value |-> value]
         /\ javaRecord' = IF state = "resolved" THEN JavaSuccess(value)
                          ELSE JavaFailure(value)
         /\ javaPc' = "done"
    ELSE UNCHANGED <<javaPromise, javaRecord, javaPc>>

\* The first settling event of the call, kept for the record's sake.
JavaNote(kind) ==
    javaFirst' = IF javaFirst.kind = "none"
                 THEN [kind |-> kind, stderr |-> errorString]
                 ELSE javaFirst

\* ExitRejects with the test of errorString left out.
ExitNeverRejects(text) == FALSE

\* if (errorString) reject(errorString), in the 'exit' handler.
ExitRejects(text) == text # <<>>

\* executeJava(codeFile, inputs) is called: the executor spawns java, writes
\* the inputs, registers its handlers and sets the timer. spawn may throw;
\* on the stdin of a child that could not be launched write or end may
\* throw; either throw rejects the promise before any handler or timer is
\* set.
ExecuteJava(inputs) ==
    /\ javaPc = "idle"
    /\ outputString' = <<>>
    /\ errorString' = <<>>
    /\ \/ /\ JavaSettle("rejected", <<SpawnThrowMessage>>)
          /\ JavaNote("throw")
          /\ UNCHANGED <<codeExec, javaTimer>>
       \/ /\ inputs # ""
          /\ codeExec' = Spawned("spawnfail")
          /\ JavaSettle("rejected", StdinThrowObject)
          /\ JavaNote("throw")
          /\ UNCHANGED javaTimer
       \/ /\ \E kind \in SpawnKinds : codeExec' = Spawned(kind)
          /\ javaTimer' = TRUE
          /\ javaPc' = "awaiting"
          /\ UNCHANGED <<javaPromise, javaRecord, javaFirst>>
    /\ UNCHANGED <<runVars, concVars>>

\* The handlers exist once the executor has run to its end.
JavaListening == javaFirst.kind # "throw" /\ javaPc \in {"awaiting", "done"}

\* The java process, or the operating system on it, takes a step.
JavaRuns ==
    /\ javaPc # "crashed"
    /\ \E p \in ChildSteps(codeExec) : codeExec' = p
    /\ UNCHANGED <<javaPc, outputString, errorString, javaTimer, javaPromise,
                   javaRecord, javaFirst, runVars, concVars>>

\* codeExec.stdout.on("data")
JavaStdoutData ==
    /\ JavaListening
    /\ codeExec.outD < codeExec.outW
    /\ codeExec' = [codeExec EXCEPT !.outD = @ + 1]
    /\ outputString' = outputString \o <<OutChunk(codeExec.outD + 1)>>
    /\ UNCHANGED <<javaPc, errorString, javaTimer, javaPromise, javaRecord,
                   javaFirst, runVars, concVars>>

\* codeExec.stderr.on("data")
JavaStderrData ==
    /\ JavaListening
    /\ codeExec.errD < codeExec.errW
    /\ codeExec' = [codeExec EXCEPT !.errD = @ + 1]
    /\ errorString' = errorString \o <<ErrChunk(codeExec.errD + 1)>>
    /\ UNCHANGED <<javaPc, outputString, javaTimer, javaPromise, javaRecord,
                   javaFirst, runVars, concVars>>

\* codeExec.on("exit"): reject when errorString is not empty, then resolve;
\* the second call finds the promise settled.
JavaExit ==
    /\ JavaListening
    /\ ExitReady(codeExec)
    /\ codeExec' = [codeExec EXCEPT !.exitSeen = TRUE]
    /\ IF ExitRejects(errorString)
       THEN JavaSettle("rejected", errorString)
       ELSE JavaSettle("resolved", outputString)
    /\ JavaNote("exit")
    /\ UNCHANGED <<outputString, errorString, javaTimer, runVars,
                   concVars>>

\* The callback of the timer, which nothing ever clears.
JavaTimer ==
    /\ javaPc # "crashed"
    /\ javaTimer
    /\ javaTimer' = FALSE
    /\ JavaSettle("rejected", JavaTimedOut)
    /\ JavaNote("timer")
    /\ UNCHANGED <<codeExec, outputString, errorString, runVars, concVars>>

\* The 'error' event of a child that could not be launched. No listener is
\* registered for it, so the event is thrown as an uncaught exception:
\* the process ends there, unless the host handles uncaught exceptions and
\* goes on.
JavaUnhandledError ==
    /\ javaPc # "crashed"
    /\ codeExec.proc = "spawnfail"
    /\ ~codeExec.errSeen
    /\ codeExec' = [codeExec EXCEPT !.errSeen = TRUE]
    /\ javaPc' \in {javaPc, "crashed"}
    /\ UNCHANGED <<outputString, errorString, javaTimer, javaPromise,
                   javaRecord, javaFirst, runVars, concVars>>

JavaNext ==
    \/ \E i \in Inputs : ExecuteJava(i)
    \/ JavaRuns
    \/ JavaStdoutData
    \/ JavaStderrData
    \/ JavaExit
    \/ JavaTimer
    \/ JavaUnhandledError

JavaSpec == Init /\ [][JavaNext]_vars

----------------------------------------------------------------------------
(* Several calls of runCode at once, each for a language that has an       *)
(* execute command and no compile command. Every handler is a closure of   *)
(* its own call: it reads and writes that call's variables only.           *)

\* createCodeFile gives every job a jobID of its own.
NewJobID(j) == j

\* The process a call of spawn creates is a new one: no two calls get the
\* same.
NewProcess(j) == j

\* runCode is called for job j.
ConcRunCode(j) ==
    /\ jobs[j].pc = "idle"
    /\ jobs' = [jobs EXCEPT ![j].pc = "awaitCreate"]
    /\ UNCHANGED <<procs, files, removals, kills, runVars, javaVars>>

\* createCodeFile returns to job j, which spawns its execute child and sets
\* its timer.
ConcCreateCodeFileReturns(j) ==
    /\ jobs[j].pc = "awaitCreate"
    /\ files' = files \cup {NewJobID(j)}
    /\ procs' = [procs EXCEPT ![NewProcess(j)] =
                    [NoProcess EXCEPT !.parent = j, !.state = "running"]]
    /\ jobs' = [jobs EXCEPT ![j].pc = "awaitExecute",
                            ![j].jobID = NewJobID(j),
                            ![j].executeCode = NewProcess(j),
                            ![j].timer = TRUE]
    /\ UNCHANGED <<removals, kills, runVars, javaVars>>

\* Process p, or the operating system on it, takes a step: it writes, it
\* exits, or it dies of the SIGKILL it was sent.
ConcProgramRuns(p) ==
    /\ procs[p].state = "running"
    /\ \/ /\ procs[p].wrote < MaxWrite
          /\ procs' = [procs EXCEPT ![p].wrote = @ + 1]
       \/ procs' = [procs EXCEPT ![p].state = "dead", ![p].pending = FALSE]
    /\ UNCHANGED <<jobs, files, removals, kills, runVars, javaVars>>

\* RemovedId with the jobID kept in a variable all calls share, which holds
\* the oldest artifact still there.
RemovedIdShared(j) == CHOOSE id \in files : \A other \in files : id <= other

\* The jobID job j passes to removeCodeFile: the jobID of its closure.
RemovedId(j) == jobs[j].jobID

\* The promise of job j is resolved with r; runCode resumes and calls
\* removeCodeFile.
ConcSettle(j, r) ==
    /\ jobs' = [jobs EXCEPT ![j].isResolved = TRUE,
                            ![j].timer = FALSE,
                            ![j].result = r,
                            ![j].removing = RemovedId(j),
                            ![j].pc = "awaitRemove"]
    /\ removals' = removals \cup {<<j, RemovedId(j)>>}

\* executeCode.stdout.on("data") of job j.
ConcStdoutData(j) ==
    LET p == jobs[j].executeCode IN
    /\ p # 0
    /\ procs[p].read < procs[p].wrote
    /\ procs' = [procs EXCEPT ![p].read = @ + 1]
    /\ jobs' = [jobs EXCEPT ![j].output = Append(@, <<p, procs[p].read + 1>>)]
    /\ UNCHANGED <<files, removals, kills, runVars, javaVars>>

\* The callback of the timer job j set: it kills the executeCode of its
\* closure and resolves with the output of its closure.
ConcExecuteTimer(j) ==
    LET p == jobs[j].executeCode IN
    /\ jobs[j].timer
    /\ ~jobs[j].isResolved
    /\ kills' = kills \cup {<<j, p>>}
    /\ procs' = [procs EXCEPT ![p].pending = (procs[p].state = "running")]
    /\ ConcSettle(j, [output |-> jobs[j].output, error |-> TimeoutNotice])
    /\ UNCHANGED <<files, runVars, javaVars>>

\* executeCode.on("close") of job j.
ConcExecuteClose(j) ==
    LET p == jobs[j].executeCode IN
    /\ p # 0
    /\ procs[p].state = "dead"
    /\ procs[p].read = procs[p].wrote
    /\ ~procs[p].closed
    /\ procs' = [procs EXCEPT ![p].closed = TRUE]
    /\ IF ~jobs[j].isResolved
       THEN ConcSettle(j, [output |-> jobs[j].output, error |-> <<>>])
       ELSE UNCHANGED <<jobs, removals>>
    /\ UNCHANGED <<files, kills, runVars, javaVars>>

\* removeCodeFile returns to job j, having removed the artifact it was
\* called for; info returns and runCode returns.
ConcRemoveCodeFileReturns(j) ==
    /\ jobs[j].pc = "awaitRemove"
    /\ files' = files \ {jobs[j].removing}
    /\ jobs' = [jobs EXCEPT ![j].pc = "done",
                            ![j].response = FinalResponse(jobs[j].result, "py")]
    /\ UNCHANGED <<procs, removals, kills, runVars, javaVars>>

\* A step of job j: of runCode or of one of the handlers of its closure.
ConcJobStep(j) ==
    \/ ConcRunCode(j)
    \/ ConcCreateCodeFileReturns(j)
    \/ ConcStdoutData(j)
    \/ ConcExecuteTimer(j)
    \/ ConcExecuteClose(j)
    \/ ConcRemoveCodeFileReturns(j)

ConcNext ==
    \/ \E j \in Jobs : ConcRunCode(j)
    \/ \E j \in Jobs : ConcCreateCodeFileReturns(j)
    \/ \E p \in Jobs : ConcProgramRuns(p)
    \/ \E j \in Jobs : ConcStdoutData(j)
    \/ \E j \in Jobs : ConcExecuteTimer(j)
    \/ \E j \in Jobs : ConcExecuteClose(j)
    \/ \E j \in Jobs : ConcRemoveCodeFileReturns(j)

ConcSpec == Init /\ [][ConcNext]_vars

----------------------------------------------------------------------------
Next ==
    \/ \E l \in Languages, c \in Codes, i \in Inputs : RunCode(l, c, i)
    \/ CreateCodeFileReturns
    \/ CompilerRuns
    \/ CompileStdoutData
    \/ CompileStderrData
    \/ CompileTimer
    \/ CompileError
    \/ CompileExit
    \/ RemoveCodeFileReturnsFailed
    \/ InfoReturnsFailed
    \/ ProgramRuns
    \/ ExecuteTimer
    \/ SpawnTimeout
    \/ ExecuteError
    \/ ExecuteStdoutData
    \/ ExecuteStderrData
    \/ ExecuteExit
    \/ ExecuteClose
    \/ RemoveCodeFileReturns
    \/ InfoReturns

Spec == Init /\ [][Next]_vars

\* The same job on a host where the removal of the artifact can also fail.
FaultNext ==
    \/ Next
    \/ RemoveCodeFileSwallowsFailed
    \/ RemoveCodeFileSwallows

FaultSpec == Init /\ [][FaultNext]_vars

\* Timers fire and the collaborators return; nothing is assumed of the
\* children.
FairSpec ==
    /\ Spec
    /\ WF_vars(CreateCodeFileReturns)
    /\ WF_vars(CompileTimer)
    /\ WF_vars(ExecuteTimer)
    /\ WF_vars(RemoveCodeFileReturnsFailed)
    /\ WF_vars(InfoReturnsFailed)
    /\ WF_vars(RemoveCodeFileReturns)
    /\ WF_vars(InfoReturns)


----------------------------------------------------------------------------
(* Properties *)

Range(seq) == {seq[i] : i \in 1..Len(seq)}

\* The request fails one of the two checks of the validation.
InvalidRequest == job.code = "" \/ job.language \notin supportedLanguages

\* The compile phase failed for one of the three causes: the compiler could
\* not be launched, it exited with a non-zero code, or its deadline expired.
CompileFailed ==
    \/ compileSettledBy \in {"error", "timer"}
    \/ compileSettledBy = "exit" /\ cproc.exitCode # 0

C2_InvalidRequestRejected ==
    (pc # "idle" /\ InvalidRequest) =>
        /\ pc = "done"
        /\ outcome = "thrown"
        /\ response.status = 400
        /\ createCalls = 0
        /\ spawnLog = <<>>
        /\ removeLog = <<>>
        /\ artifacts = {}
        /\ cproc = NoChild
        /\ eproc = NoChild

C2_Witness ==
    /\ outcome = "thrown"
    /\ job.code # ""
    /\ job.language = "zz"

\* The execute deadline expired on a child that had not ended and the phase
\* was settled by it: by runCode's timer, or by the 'close' of a child that
\* died of the SIGTERM that only spawn's timeout option sends.
DeadlineExpired ==
    \/ settledBy = "timer"
    \/ settledBy = "close" /\ eproc.signal = "SIGTERM"

\* C3, as claimed: when the execute deadline expires on a child that has
\* not ended, the result's output is the stdout accumulated by then and its
\* error is the stderr accumulated by then followed by the timeout notice,
\* whichever of the two deadline mechanisms acts first.
C3_Original ==
    DeadlineExpired =>
        /\ \E n \in 0..eproc.outD : result.output = OutText(n)
        /\ \E n \in 0..eproc.errD : result.error = ErrText(n) \o TimeoutNotice

GenericCompileMessages ==
    {<<"Compilation failed">>, <<"Compilation timed out">>,
     <<"Compilation error: ", SpawnErrorMessage>>}

\* C5, as claimed: after a failed compilation the error of the response is
\* everything the compiler had written to stderr if that is non-empty,
\* otherwise everything it had written to stdout if that is non-empty,
\* otherwise a generic message.
C5_Original ==
    (CompileFailed /\ outcome = "returned") =>
        IF compileWrote.err > 0 THEN response.error = ErrText(compileWrote.err)
        ELSE IF compileWrote.out > 0
             THEN response.error = OutText(compileWrote.out)
             ELSE response.error \in GenericCompileMessages

\* C6, as claimed: every response runCode delivers, thrown ones included,
\* carries info(language).
C6_Original ==
    outcome # "none" =>
        ("info" \in DOMAIN response /\ response.info = info(job.language))

\* C6, amended: every response runCode returns (after a failed compilation
\* or after the execute phase) carries info(language) and the language;
\* what the validation throws carries only status and error.
C6_ReturnedResponsesCarryInfo ==
    /\ outcome = "returned" =>
          /\ "info" \in DOMAIN response
          /\ response.info = info(job.language)
    /\ outcome = "thrown" => DOMAIN response = {"status", "error"}

C6_Witness ==
    /\ outcome = "returned"
    /\ CompileFailed
    /\ response.info = info("obj")

C9_NormalExitVerbatim ==
    (settledBy = "close" /\ eproc.signal = "none") =>
        /\ eproc.proc = "dead"
        /\ result.output = OutText(eproc.outW)
        /\ result.error = ErrText(eproc.errW)
        /\ pc = "done" =>
              /\ outcome = "returned"
              /\ response.output = OutText(eproc.outW)
              /\ response.error = ErrText(eproc.errW)

C9_Witness ==
    /\ settledBy = "close"
    /\ eproc.signal = "none"
    /\ eproc.exitCode = 1
    /\ eproc.outW > 0
    /\ eproc.errW > 0
    /\ pc = "done"

\* C10: every call of runCode eventually delivers a response (returned or
\* thrown), given only that timers fire and createCodeFile, removeCodeFile
\* and info return; nothing is assumed of the compiler or the program.
C10_AlwaysResponds == (pc # "idle") ~> (pc = "done" /\ outcome # "none")

\* The response is delivered while the program is still running, having
\* written nothing and produced no event.
C10_Witness ==
    /\ pc = "done"
    /\ settledBy = "timer"
    /\ eproc.proc = "running"
    /\ eproc.outW = 0
    /\ eproc.errW = 0
    /\ compileSettledBy = "none"

\* C11, as claimed: once runCode has returned the response of a job whose
\* execute deadline expired, the child that job spawned no longer exists.
C11_Original ==
    (pc = "done" /\ outcome = "returned" /\ DeadlineExpired) =>
        eproc.proc # "running"

\* C12: for a language that has an execute command and no compile command,
\* spawn is called exactly once in the whole job, for the execute phase, and
\* no compile process or compile timer ever exists.
C12_SingleSpawnWithoutCompile ==
    LET cmd == commandMap(jobID, job.language) IN
    (/\ pc \notin {"idle", "awaitCreate"}
     /\ ~InvalidRequest
     /\ cmd.compileCodeCommand = ""
     /\ cmd.executeCodeCommand # "") =>
        /\ spawnLog = <<"execute">>
        /\ cproc = NoChild
        /\ ~compileTimer
        /\ compileSettledBy = "none"

C12_Witness ==
    /\ pc = "done"
    /\ job.language = "py"
    /\ settledBy = "close"
    /\ spawnLog = <<"execute">>

\* C14: the promise of each phase is settled at most once: once natural end,
\* spawn error or deadline has settled a phase, no later event settles it
\* again or changes what it was settled with, no second removeCodeFile is
\* started, and a response once delivered never changes.
C14_SettledOnce ==
    [][/\ compileSettledBy # "none" =>
             /\ compileSettledBy' = compileSettledBy
             /\ compileResult' = compileResult
             /\ compileIsResolved' = compileIsResolved
       /\ settledBy # "none" =>
             /\ settledBy' = settledBy
             /\ result' = result
             /\ removeLog' = removeLog
       /\ (CompileFailed \/ compileSettledBy = "throw") =>
             removeLog' = removeLog
       /\ outcome # "none" => (response' = response /\ outcome' = outcome)]_vars

\* The deadline settled the execute phase and the child's 'close' came
\* later; the compile phase before it was settled by the compiler's exit.
C14_Witness ==
    /\ settledBy = "timer"
    /\ eproc.closeSeen
    /\ eproc.signal = "SIGKILL"
    /\ result.error = TimeoutNotice
    /\ compileSettledBy = "exit"
    /\ pc = "done"

\* C15: the execute process is spawned only after the compile process, when
\* the language has one, has exited with code 0; removeCodeFile is called
\* only after every phase that ran has been settled; and once
\* removeCodeFile has been called spawn is never called again.
C15_PhaseOrder ==
    /\ [](/\ ("execute" \in Range(spawnLog)
              /\ commandMap(jobID, job.language).compileCodeCommand # "") =>
                /\ spawnLog = <<"compile", "execute">>
                /\ cproc.proc = "dead"
                /\ cproc.exitSeen
                /\ cproc.exitCode = 0
                /\ compileSettledBy = "exit"
          /\ removeLog # <<>> =>
                /\ \/ CompileFailed
                   \/ compileSettledBy = "throw"
                   \/ settledBy # "none"
                /\ "compile" \in Range(spawnLog) => compileSettledBy # "none"
                /\ "execute" \in Range(spawnLog) => settledBy # "none")
    /\ [][removeLog # <<>> => spawnLog' = spawnLog]_vars

C15_Witness ==
    /\ pc = "done"
    /\ spawnLog = <<"compile", "execute">>
    /\ removeLog = <<jobID>>
    /\ settledBy = "close"
    /\ cproc.outW > 0

\* C16, as claimed: each deadline timer lives only within its own phase: the
\* compile timer is pending only while the compile phase awaits, the timers
\* of the execute deadline only while the execute phase awaits, a child is
\* signalled only by a timer of its own phase, and no timer is pending once
\* runCode has returned.
C16_Original ==
    /\ compileTimer => (pc = "awaitCompile" /\ eproc = NoChild)
    /\ (timer \/ nodeTimer) => (pc = "awaitExecute" /\ ~compileTimer)
    /\ (cproc.pending # "none" \/ cproc.signal = "SIGKILL") =>
          compileSettledBy = "timer"
    /\ eproc.pending # "none" => compileSettledBy = "exit"
    /\ pc = "done" => (~compileTimer /\ ~timer /\ ~nodeTimer)

\* The notice a string of tokens carries.
HasTimeoutNotice(text) ==
    \E i \in 1..Len(text) : text[i] = TimeoutNotice[1]
HasSignalNotice(text) ==
    \E i \in 1..Len(text) : text[i] = SignalNotice("none")[1]

\* C18: when the execute child was ended by a signal and its 'close' is
\* what settles the phase, the result's output is everything the child
\* wrote to stdout and its error everything it wrote to stderr followed by
\* the notice that names the signal; and no result carries both the
\* timeout notice and a signal notice.
C18_SignalNotice ==
    /\ (settledBy = "close" /\ eproc.signal # "none") =>
          /\ result.output = OutText(eproc.outW)
          /\ result.error = ErrText(eproc.errW) \o SignalNotice(eproc.signal)
          /\ pc = "done" =>
                /\ response.output = result.output
                /\ response.error = result.error
    /\ settledBy # "none" =>
          ~(HasTimeoutNotice(result.error) /\ HasSignalNotice(result.error))
    /\ settledBy = "timer" => ~HasSignalNotice(result.error)

C18_Witness ==
    /\ settledBy = "close"
    /\ eproc.signal = "SIGSEGV"
    /\ eproc.outW > 0
    /\ eproc.errW > 0
    /\ pc = "done"

\* C19: when the language has no execute command, spawn is not called for
\* the execute phase and neither deadline timer of that phase is started;
\* the result has empty output and the error "Executable not found";
\* removeCodeFile is called with the job's jobID and runCode returns that
\* result with the language and info(language) attached.
C19_MissingExecutable ==
    LET cmd == commandMap(jobID, job.language) IN
    (/\ ~InvalidRequest
     /\ jobID # 0
     /\ cmd.executeCodeCommand = "") =>
        /\ "execute" \notin Range(spawnLog)
        /\ eproc = NoChild
        /\ ~timer
        /\ ~nodeTimer
        /\ (compileSettledBy = "exit" /\ cproc.exitCode = 0) =>
              /\ settledBy = "missing"
              /\ result = [output |-> <<>>,
                           error |-> <<"Executable not found">>]
              /\ removeLog = <<jobID>>
              /\ pc \in {"awaitRemove", "awaitInfo", "done"}
              /\ pc = "done" =>
                    /\ outcome = "returned"
                    /\ response = [output |-> <<>>,
                                   error |-> <<"Executable not found">>,
                                   language |-> job.language,
                                   info |-> info(job.language)]

C19_Witness ==
    /\ pc = "done"
    /\ settledBy = "missing"
    /\ job.language = "obj"
    /\ response.error = <<"Executable not found">>
    /\ artifacts = {}

\* The best-effort steps that failed in this job: the kill of the deadline
\* found the child already ended or never launched; a write or end of the
\* child's stdin threw; removeCodeFile returned and the artifact is still
\* there.
CompileKillFailed ==
    /\ compileSettledBy = "timer"
    /\ \/ cproc.proc = "spawnfail"
       \/ cproc.proc = "dead" /\ cproc.signal # "SIGKILL"
ExecuteKillFailed ==
    /\ settledBy = "timer"
    /\ \/ eproc.proc = "spawnfail"
       \/ eproc.proc = "dead" /\ eproc.signal # "SIGKILL"
StdinFailed == eproc # NoChild /\ ~stdin.ended
RemovalFailed ==
    /\ pc \in {"awaitInfoFailed", "awaitInfo", "done"}
    /\ removeLog # <<>>
    /\ jobID \in artifacts

C20_SuccessExactlyOnCleanExit ==
    /\ [](/\ javaPromise.state # "pending" <=> javaRecord # <<>>
          /\ javaFirst.kind # "none" <=> javaRecord # <<>>
          /\ javaPc = "done" => javaRecord # <<>>
          /\ javaPc = "awaiting" => (javaTimer /\ javaRecord = <<>>)
          /\ javaRecord # <<>> =>
                /\ javaRecord.success <=>
                      (javaFirst.kind = "exit" /\ javaFirst.stderr = <<>>)
                /\ javaRecord.success =>
                      DOMAIN javaRecord = {"success", "timestamp", "output"}
                /\ ~javaRecord.success =>
                      /\ DOMAIN javaRecord = {"success", "timestamp", "error"}
                      /\ javaFirst.kind = "timer" =>
                            javaRecord.error = JavaTimedOut
                      /\ javaFirst.kind = "exit" =>
                            javaRecord.error = javaFirst.stderr)
    /\ [][javaRecord # <<>> => javaRecord' = javaRecord]_vars

\* The child wrote to stderr but exited before the text was delivered, so
\* the record says success; the timer fired later and changed nothing.
C20_Witness ==
    /\ javaRecord # <<>>
    /\ javaRecord.success
    /\ codeExec.errW > 0
    /\ errorString # <<>>
    /\ ~javaTimer

\* The chunks of a text all come from processes that job j spawned.
OwnOutput(j, text) ==
    \A i \in 1..Len(text) : procs[text[i][1]].parent = j

\* Nothing that belongs to job k changes in the step: the variables of its
\* closure, the process it spawned, its artifact.
Untouched(k) ==
    /\ jobs'[k] = jobs[k]
    /\ \A p \in Jobs : procs[p].parent = k => procs'[p] = procs[p]
    /\ (jobs[k].jobID \in files) <=> (jobs[k].jobID \in files')

\* C13: with several jobs in progress at once, each with a jobID of its
\* own, every job calls removeCodeFile only with its own jobID and kill only
\* on a process it spawned, its output, result and response hold only
\* chunks its own child wrote, its artifact is there until the job itself
\* has it removed, and a step of one job leaves every other job's
\* variables, process and artifact as they were.
C13_JobsIsolated ==
    /\ [](/\ \A r \in removals : r[2] = jobs[r[1]].jobID /\ r[2] # 0
          /\ \A k \in kills : k[2] # 0 /\ procs[k[2]].parent = k[1]
          /\ \A j \in Jobs :
                /\ OwnOutput(j, jobs[j].output)
                /\ jobs[j].result # <<>> => OwnOutput(j, jobs[j].result.output)
                /\ jobs[j].response # <<>> =>
                      OwnOutput(j, jobs[j].response.output)
                /\ jobs[j].pc \in {"awaitExecute", "awaitRemove"} =>
                      jobs[j].jobID \in files
                /\ jobs[j].pc = "done" => jobs[j].jobID \notin files)
    /\ [][\A j \in Jobs :
             ConcJobStep(j) => \A k \in Jobs \ {j} : Untouched(k)]_vars

\* Two jobs were in progress at once; both children wrote; one job ran into
\* its deadline and killed its child, the other ended on its child's
\* 'close', and each returned its own child's output.
C13_Witness ==
    /\ jobs[1].pc = "done"
    /\ jobs[2].pc = "done"
    /\ kills = {<<1, jobs[1].executeCode>>}
    /\ jobs[1].response.output = <<<<jobs[1].executeCode, 1>>>>
    /\ jobs[2].response.output = <<<<jobs[2].executeCode, 1>>>>
    /\ jobs[2].response.error = <<>>
    /\ removals = {<<1, jobs[1].jobID>>, <<2, jobs[2].jobID>>}

====
